---- MODULE Spec2Model ----
(***************************************************************************)
(* Model of CountryMap(element, props): the geometry loader with its       *)
(* process-wide cache `maps`, the per-chart zoom store `zoomStates`, and   *)
(* the click / context-menu / zoom handlers each render call installs.     *)
(***************************************************************************)
EXTENDS Integers, Sequences, FiniteSets, TLC

\* ------------------------------------------------------------------ bounds
MaxSel == 2        \* longest filterState.selectedValues list a host passes
MaxInFlight == 2   \* geometry fetches that may be pending at once
MaxFetches == 2    \* fetches issued per country code
MaxPan == 20       \* largest raw pan distance (either direction) of a gesture

\* ------------------------------------------------------- program constants
MinScale == 1
MaxScale == 4
DimOpacity == 3    \* fill-opacity 0.3, in tenths
FullOpacity == 10  \* fill-opacity 1, in tenths

\* ------------------------------------------------------------- JS values
\* null / undefined / an array, tagged so that they can be compared
Null == [tag |-> "null", items |-> <<>>]
Undefined == [tag |-> "undefined", items |-> <<>>]
Arr(s) == [tag |-> "array", items |-> s]

\* v || []   for a value that is null, undefined or an array
OrEmpty(v) == IF v.tag = "array" THEN v.items ELSE <<>>

\* Array.prototype.includes
Includes(s, x) == \E i \in 1..Len(s) : s[i] = x

\* ------------------------------------------------------------ input domains
Elements == {1, 2}
ISOCodes == {"A", "B"}
NoISO == "undefined"          \* feature?.properties?.ISO of a feature without one
Entity == "region_col"

\* the features of a boundary document: two coded regions and one without code
Features == <<"A", "B", NoISO>>
FeatureIdx == 1..Len(Features)

CountryCodes == {"uk", "atlantis"}

SeqsUpTo(S, n) == UNION {[1..k -> S] : k \in 0..n}
Selections == {Null, Undefined} \cup {Arr(s) : s \in SeqsUpTo(ISOCodes, MaxSel)}

Widths == {4, 6}
Heights == {3, 5}
SliceIds == {"", "1", "uk-4-3"}   \* "" stands for an absent (falsy) sliceId
Pointers == {<<10, 20>>, <<30, 5>>}
RawCoords == {-MaxPan, -2, MaxPan}

\* ./countries: countries (code -> url) and countryOptions (code, display name)
countryOptions == <<<<"france", "France">>, <<"uk", "UK">>>>

\* variant: the panel names the raw code even when a display name exists
CountryNameRawCode(country) == country

\* countryOptions.find(x => x[0] === country)?.[1] || country
CountryName(country) ==
  IF \E i \in 1..Len(countryOptions) : countryOptions[i][1] = country
  THEN LET i == CHOOSE j \in 1..Len(countryOptions) :
                  /\ countryOptions[j][1] = country
                  /\ \A k \in 1..(j - 1) : countryOptions[k][1] # country
           name == countryOptions[i][2]
       IN IF name # "" THEN name ELSE country
  ELSE country

ErrorHtml(country) ==
  "<div class=\"alert alert-danger\">Could not load map data for "
    \o CountryName(country) \o "</div>"

\* sliceId || `${country}-${width}-${height}`
chartKey(p) ==
  IF p.sliceId # "" THEN p.sliceId
  ELSE p.country \o "-" \o ToString(p.width) \o "-" \o ToString(p.height)

\* the props of a small chart; the specifications vary the fields they study
BaseProps ==
  [width |-> 4, height |-> 3, country |-> "uk", sliceId |-> "",
   selectedValues |-> Undefined, emitCrossFilters |-> FALSE,
   onContextMenu |-> FALSE, setDataMask |-> FALSE,
   data |-> <<>>, colorScheme |-> ""]

ChartKeys == {chartKey(p) : p \in [width : Widths, height : Heights,
                                   country : CountryCodes, sliceId : SliceIds]}

\* ------------------------------------------------------------ JS Set
\* new Set(array): the distinct items in first-insertion order
RECURSIVE SetFrom(_)
SetFrom(s) ==
  IF s = <<>> THEN <<>>
  ELSE LET front == SetFrom(SubSeq(s, 1, Len(s) - 1))
           x == s[Len(s)]
       IN IF Includes(front, x) THEN front ELSE Append(front, x)

SetAdd(s, x) == IF Includes(s, x) THEN s ELSE Append(s, x)
SetDelete(s, x) == SelectSeq(s, LAMBDA y : y # x)

\* ------------------------------------------------------ cross-filter logic
NoMask == [none |-> TRUE]

\* getCrossFilterDataMask(source); called only with a feature that has an ISO
getCrossFilterDataMask(selectedValues, iso) ==
  LET selected == OrEmpty(selectedValues)
      isSelected == Includes(selected, iso)
      values == IF isSelected THEN <<>> ELSE <<iso>>
  IN [dataMask |->
        [extraFormData |->
           [filters |-> IF Len(values) > 0
                        THEN <<[col |-> Entity, op |-> "IN", val |-> values]>>
                        ELSE <<>>],
         filterState |->
           [value |-> IF Len(values) > 0 THEN Arr(values) ELSE Null,
            selectedValues |-> IF Len(values) > 0 THEN Arr(values) ELSE Null]],
      isCurrentValueSelected |-> isSelected]

\* variant: a plain click clears whenever the region is selected, not only
\* when it is the sole selection
NewSelectionClearOnAnySelected(selectedValues, iso, shift) ==
  LET currently == SetFrom(OrEmpty(selectedValues))
  IN IF shift
     THEN IF Includes(currently, iso) THEN SetDelete(currently, iso)
          ELSE SetAdd(currently, iso)
     ELSE IF Includes(currently, iso) THEN <<>> ELSE <<iso>>

\* handleClick: the new selection computed from the baseline
NewSelection(selectedValues, iso, shift) ==
  LET baseline == OrEmpty(selectedValues)
      currently == SetFrom(baseline)
  IN IF shift
     THEN IF Includes(currently, iso) THEN SetDelete(currently, iso)
          ELSE SetAdd(currently, iso)
     ELSE IF Len(currently) = 1 /\ Includes(currently, iso) THEN <<>>
          ELSE <<iso>>

\* variant: the clause is emitted even for an empty selection
ClickDataMaskAlwaysClause(newSelection) ==
  [extraFormData |->
     [filters |-> <<[col |-> Entity, op |-> "IN", val |-> newSelection]>>],
   filterState |->
     [value |-> IF Len(newSelection) > 0 THEN Arr(newSelection) ELSE Null,
      selectedValues |-> IF Len(newSelection) > 0 THEN Arr(newSelection) ELSE Null]]

\* handleClick: the argument of setDataMask
ClickDataMask(newSelection) ==
  [extraFormData |->
     [filters |-> IF Len(newSelection) > 0
                  THEN <<[col |-> Entity, op |-> "IN", val |-> newSelection]>>
                  ELSE <<>>],
   filterState |->
     [value |-> IF Len(newSelection) > 0 THEN Arr(newSelection) ELSE Null,
      selectedValues |-> IF Len(newSelection) > 0 THEN Arr(newSelection) ELSE Null]]

\* handleContextMenu: the third argument of onContextMenu
ContextMenuFilters(selectedValues, iso) ==
  [drillToDetail |-> <<[col |-> Entity, op |-> "==", val |-> iso, formattedVal |-> iso]>>,
   crossFilter |-> getCrossFilterDataMask(selectedValues, iso),
   drillBy |-> [filters |-> <<[col |-> Entity, op |-> "==", val |-> iso]>>,
                groupbyFieldName |-> "entity"]]

\* ------------------------------------------------------------ highlighting
\* highlightSelectedRegion: filterState.selectedValues?.length ? ... : []
HighlightValues(selectedValues) ==
  IF selectedValues.tag = "array" /\ Len(selectedValues.items) > 0
  THEN selectedValues.items ELSE <<>>

\* variant: an empty selection dims every region
FillOpacityDimWhenEmpty(selectedValues, iso) ==
  IF Includes(HighlightValues(selectedValues), iso) THEN FullOpacity ELSE DimOpacity

FillOpacity(selectedValues, iso) ==
  LET sv == HighlightValues(selectedValues)
  IN IF Len(sv) = 0 \/ Includes(sv, iso) THEN FullOpacity ELSE DimOpacity

Stroke(selectedValues, iso) ==
  IF Includes(HighlightValues(selectedValues), iso) THEN "#222" ELSE "null"

StrokeWidth(selectedValues, iso) ==
  IF Includes(HighlightValues(selectedValues), iso) THEN "1.5px" ELSE "0.5px"

\* the styles highlightSelectedRegion leaves on every path.region
highlightSelectedRegion(selectedValues) ==
  [i \in FeatureIdx |->
     [fillOpacity |-> FillOpacity(selectedValues, Features[i]),
      stroke |-> Stroke(selectedValues, Features[i]),
      strokeWidth |-> StrokeWidth(selectedValues, Features[i])]]

\* ------------------------------------------------------------------ colours
\* properties.NAME_2 and properties.NAME_1 of the features ("": absent)
FeatureNames ==
  <<[NAME_1 |-> "North", NAME_2 |-> "Northwest"],
    [NAME_1 |-> "South", NAME_2 |-> ""],
    [NAME_1 |-> "", NAME_2 |-> ""]>>

\* colorScheme ? colorScale(d.country_id, sliceId) : linearColorScale(d.metric)
ColorOf(p, d) ==
  IF p.colorScheme # ""
  THEN "cat(" \o d.country_id \o ")"
  ELSE "lin(" \o ToString(d.metric) \o ")"

\* data.forEach(d => { colorMap[d.country_id] = ... }): a later row overwrites
\* the entry of an earlier row with the same country_id ("": no entry)
RECURSIVE colorMap(_, _, _)
colorMap(p, n, iso) ==
  IF n = 0 THEN ""
  ELSE IF p.data[n].country_id = iso THEN ColorOf(p, p.data[n])
       ELSE colorMap(p, n - 1, iso)

\* colorFn, for a feature that has properties: colorMap[iso] || '#FFFEFE'
colorFn(p, iso) ==
  LET c == colorMap(p, Len(p.data), iso)
  IN IF c # "" THEN c ELSE "#FFFEFE"

\* d3.rgb(c).darker().toString()
Darker(c) == "darker(" \o c \o ")"

\* getNumberFormatter(numberFormat)(metric)
format(metric) == "fmt(" \o ToString(metric) \o ")"

\* selectAndDisplayNameOfRegion: NAME_2 || NAME_1 || ''
RegionName(i) ==
  IF FeatureNames[i].NAME_2 # "" THEN FeatureNames[i].NAME_2
  ELSE FeatureNames[i].NAME_1

\* updateMetrics(data.filter(r => r.country_id === ISO)): the first matching row
MetricText(p, iso) ==
  LET regionRows == SelectSeq(p.data, LAMBDA r : r.country_id = iso)
  IN IF Len(regionRows) > 0 THEN format(regionRows[1].metric) ELSE ""

\* .style('fill', colorFn) over the features drawMap binds
DrawnFills(p) == [i \in FeatureIdx |-> colorFn(p, Features[i])]

\* -------------------------------------------------------------------- zoom
Min(a, b) == IF a < b THEN a ELSE b
Max(a, b) == IF a > b THEN a ELSE b

\* variant: the lower bound is not applied
ClampTranslateUpperOnly(t, dimension, scale) == Min(t, 0)

\* the clamp of the 'zoom' listener, one axis
ClampTranslate(t, dimension, scale) ==
  LET scaled == dimension * scale
      minT == Min(0, dimension - scaled)
      maxT == 0
  IN Max(Min(t, maxT), minT)

\* no entry in zoomStates; no transform attribute; zoom.scale().translate() not called
NoZoom == [scale |-> 0, translate |-> <<0, 0>>]
Scales == MinScale..MaxScale

\* ------------------------------------------------------------------- state
VARIABLES
  maps,        \* module-level cache: country code -> response stored (0: none)
  zoomStates,  \* module-level store: chart key -> {scale, translate} or NoZoom
  cur,         \* per element: the closure of the latest CountryMap call on it
  dom,         \* per element: what the container currently shows
  fetches,     \* pending d3.json requests, each with the closure it resumes
  fetchCount,  \* per country code: d3.json requests issued so far
  last         \* the last operation and what it passed to the host's callbacks

vars == <<maps, zoomStates, cur, dom, fetches, fetchCount, last>>

NoChart ==
  [rendered |-> FALSE, props |-> BaseProps, drawn |-> FALSE,
   gTransform |-> NoZoom, zoomCall |-> NoZoom, regions |-> <<>>,
   fills |-> <<>>, bigText |-> "", resultText |-> ""]

EmptyDom == [kind |-> "empty", html |-> ""]
SvgDom == [kind |-> "svg", html |-> ""]

NoCall ==
  [op |-> "none", el |-> 0, feature |-> 0, shift |-> FALSE,
   prevented |-> FALSE, setDataMaskCalls |-> 0, mask |-> NoMask,
   highlights |-> 0, ctxCalls |-> 0, ctxArgs |-> <<>>,
   fetched |-> FALSE, fromCache |-> FALSE, country |-> "", stale |-> FALSE,
   pointer |-> <<0, 0>>, fill |-> ""]

Init ==
  /\ maps = [c \in CountryCodes |-> 0]
  /\ zoomStates = [k \in ChartKeys |-> NoZoom]
  /\ cur = [e \in Elements |-> NoChart]
  /\ dom = [e \in Elements |-> EmptyDom]
  /\ fetches = <<>>
  /\ fetchCount = [c \in CountryCodes |-> 0]
  /\ last = NoCall

RemoveAt(s, i) == SubSeq(s, 1, i - 1) \o SubSeq(s, i + 1, Len(s))

\* variant: the cache is consulted under a key that is never stored
CachedNever(country) == FALSE

\* the geometry loader's test of the cache: const map = maps[country]; if (map)
Cached(country) == maps[country] # 0

\* variant: the restore keeps the scale and drops the translate
RestoredScaleOnly(key) == [zoomStates[key] EXCEPT !.translate = <<0, 0>>]

\* the restore block: if (zoomStates[chartKey]) { zoom.scale(..).translate(..);
\* g.attr('transform', ..) }; NoZoom when there is no entry
RestoredTransform(key) == zoomStates[key]

\* ------------------------------------------------------------------ render
\* CountryMap(element, props): rebuild the container, attach the zoom
\* behaviour, restore the stored zoom, then draw from the cache or fetch
Render(e, p) ==
  LET key == chartKey(p)
      stored == RestoredTransform(key)
      hit == Cached(p.country)
      superseded == [i \in 1..Len(fetches) |->
                       IF fetches[i].el = e
                       THEN [fetches[i] EXCEPT !.stale = TRUE]
                       ELSE fetches[i]]
  IN /\ hit \/ (Len(fetches) < MaxInFlight /\ fetchCount[p.country] < MaxFetches)
     /\ cur' = [cur EXCEPT ![e] =
                  [rendered |-> TRUE, props |-> p, drawn |-> hit,
                   gTransform |-> stored,
                   zoomCall |-> stored,
                   regions |-> IF hit
                               THEN highlightSelectedRegion(p.selectedValues)
                               ELSE <<>>,
                   fills |-> IF hit THEN DrawnFills(p) ELSE <<>>,
                   bigText |-> "", resultText |-> ""]]
     /\ dom' = [dom EXCEPT ![e] = SvgDom]
     /\ IF hit
        THEN /\ fetches' = superseded
             /\ UNCHANGED fetchCount
        ELSE /\ fetches' = Append(superseded,
                                  [el |-> e, country |-> p.country, stale |-> FALSE,
                                   id |-> fetchCount[p.country] + 1])
             /\ fetchCount' = [fetchCount EXCEPT ![p.country] = @ + 1]
     /\ last' = [NoCall EXCEPT !.op = "render", !.el = e, !.country = p.country,
                               !.fetched = ~hit, !.fromCache = hit]
     /\ UNCHANGED <<maps, zoomStates>>

\* d3.json callback, no error: maps[country] = mapData; drawMap(mapData).
\* A superseded closure draws into its own, detached, layer.
FetchSuccess(i) ==
  LET f == fetches[i]
  IN /\ maps' = [maps EXCEPT ![f.country] = f.id]
     /\ cur' = IF f.stale THEN cur
               ELSE [cur EXCEPT ![f.el].drawn = TRUE,
                                ![f.el].fills = DrawnFills(cur[f.el].props),
                                ![f.el].regions =
                                  highlightSelectedRegion(cur[f.el].props.selectedValues)]
     /\ fetches' = RemoveAt(fetches, i)
     /\ last' = [NoCall EXCEPT !.op = "fetchSuccess", !.el = f.el,
                               !.country = f.country, !.stale = f.stale]
     /\ UNCHANGED <<zoomStates, dom, fetchCount>>

\* variant: a failed load also drops the country's cache entry
FetchFailureEvicting(i) ==
  LET f == fetches[i]
  IN /\ dom' = [dom EXCEPT ![f.el] = [kind |-> "error", html |-> ErrorHtml(f.country)]]
     /\ maps' = [maps EXCEPT ![f.country] = 0]
     /\ fetches' = RemoveAt(fetches, i)
     /\ last' = [NoCall EXCEPT !.op = "fetchFailure", !.el = f.el,
                               !.country = f.country, !.stale = f.stale]
     /\ UNCHANGED <<zoomStates, cur, fetchCount>>

\* variant: the panel is added to the container without removing the chart
FetchFailureKeepingSvg(i) ==
  LET f == fetches[i]
  IN /\ dom' = [dom EXCEPT ![f.el] = [kind |-> dom[f.el].kind,
                                      html |-> ErrorHtml(f.country)]]
     /\ fetches' = RemoveAt(fetches, i)
     /\ last' = [NoCall EXCEPT !.op = "fetchFailure", !.el = f.el,
                               !.country = f.country, !.stale = f.stale]
     /\ UNCHANGED <<maps, zoomStates, cur, fetchCount>>

\* variant: the callback of a superseded render call is ignored
FetchFailureGuarded(i) ==
  LET f == fetches[i]
  IN /\ dom' = IF f.stale THEN dom
               ELSE [dom EXCEPT ![f.el] = [kind |-> "error", html |-> ErrorHtml(f.country)]]
     /\ fetches' = RemoveAt(fetches, i)
     /\ last' = [NoCall EXCEPT !.op = "fetchFailure", !.el = f.el,
                               !.country = f.country, !.stale = f.stale]
     /\ UNCHANGED <<maps, zoomStates, cur, fetchCount>>

\* d3.json callback, error: d3.select(element).html(error panel)
FetchFailure(i) ==
  LET f == fetches[i]
  IN /\ dom' = [dom EXCEPT ![f.el] = [kind |-> "error", html |-> ErrorHtml(f.country)]]
     /\ fetches' = RemoveAt(fetches, i)
     /\ last' = [NoCall EXCEPT !.op = "fetchFailure", !.el = f.el,
                               !.country = f.country, !.stale = f.stale]
     /\ UNCHANGED <<maps, zoomStates, cur, fetchCount>>

\* a region of element e can receive pointer events
Interactive(e) == dom[e].kind = "svg" /\ cur[e].drawn

\* ------------------------------------------------------------------- click
\* variant: the guard forgets the emitCrossFilters flag
ClickEnabledIgnoringFlag(p) == p.setDataMask

\* the guard of handleClick: emitCrossFilters && typeof setDataMask === 'function'
ClickEnabled(p) == p.emitCrossFilters /\ p.setDataMask

\* variant: the toggle is applied to the host's list itself instead of a copy
handleClickMutatingBaseline(e, i, shift) ==
  LET p == cur[e].props
      iso == Features[i]
      newSelection == NewSelection(p.selectedValues, iso, shift)
      called == [NoCall EXCEPT !.op = "click", !.el = e, !.feature = i, !.shift = shift]
  IN /\ Interactive(e)
     /\ IF ~ClickEnabled(p) \/ iso = NoISO
        THEN /\ last' = called
             /\ UNCHANGED cur
        ELSE /\ last' = [called EXCEPT !.setDataMaskCalls = 1,
                                       !.mask = ClickDataMask(newSelection),
                                       !.highlights = 1]
             /\ cur' = [cur EXCEPT ![e].props.selectedValues = Arr(newSelection),
                                   ![e].regions =
                                     highlightSelectedRegion(Arr(newSelection))]
     /\ UNCHANGED <<maps, zoomStates, dom, fetches, fetchCount>>

\* variant: the highlight pass after the click uses the selection just emitted
handleClickHighlightingNew(e, i, shift) ==
  LET p == cur[e].props
      iso == Features[i]
      newSelection == NewSelection(p.selectedValues, iso, shift)
      called == [NoCall EXCEPT !.op = "click", !.el = e, !.feature = i, !.shift = shift]
  IN /\ Interactive(e)
     /\ IF ~ClickEnabled(p) \/ iso = NoISO
        THEN /\ last' = called
             /\ UNCHANGED cur
        ELSE /\ last' = [called EXCEPT !.setDataMaskCalls = 1,
                                       !.mask = ClickDataMask(newSelection),
                                       !.highlights = 1]
             /\ cur' = [cur EXCEPT ![e].regions =
                                     highlightSelectedRegion(Arr(newSelection))]
     /\ UNCHANGED <<maps, zoomStates, dom, fetches, fetchCount>>

\* handleClick: guard, toggle on a copy of the baseline, setDataMask, then
\* highlightSelectedRegion() with the closure's own filterState
handleClick(e, i, shift) ==
  LET p == cur[e].props
      iso == Features[i]
      newSelection == NewSelection(p.selectedValues, iso, shift)
      called == [NoCall EXCEPT !.op = "click", !.el = e, !.feature = i, !.shift = shift]
  IN /\ Interactive(e)
     /\ IF ~ClickEnabled(p) \/ iso = NoISO
        THEN /\ last' = called
             /\ UNCHANGED cur
        ELSE /\ last' = [called EXCEPT !.setDataMaskCalls = 1,
                                       !.mask = ClickDataMask(newSelection),
                                       !.highlights = 1]
             /\ cur' = [cur EXCEPT ![e].regions =
                                     highlightSelectedRegion(p.selectedValues)]
     /\ UNCHANGED <<maps, zoomStates, dom, fetches, fetchCount>>

\* ------------------------------------------------------------ context menu
\* variant: the guard forgets the region's ISO code
ContextMenuInvokedWithoutISO(p, iso) == p.onContextMenu

\* the guard of the onContextMenu call: iso && typeof onContextMenu === 'function'
ContextMenuInvoked(p, iso) == iso # NoISO /\ p.onContextMenu

handleContextMenu(e, i, pointer) ==
  LET p == cur[e].props
      iso == Features[i]
      called == [NoCall EXCEPT !.op = "contextmenu", !.el = e, !.feature = i,
                               !.pointer = pointer, !.prevented = p.onContextMenu]
  IN /\ Interactive(e)
     /\ IF ~ContextMenuInvoked(p, iso)
        THEN last' = called
        ELSE last' = [called EXCEPT !.ctxCalls = 1,
                                    !.ctxArgs = <<pointer[1], pointer[2],
                                                  ContextMenuFilters(p.selectedValues, iso)>>]
     /\ UNCHANGED <<maps, zoomStates, cur, dom, fetches, fetchCount>>

\* ------------------------------------------------------------------- hover
\* mouseenter: darken the region, show its name and its first metric
mouseenter(e, i) ==
  LET p == cur[e].props
      iso == Features[i]
      c == colorFn(p, iso)
  IN /\ Interactive(e)
     /\ cur' = [cur EXCEPT ![e].fills[i] = IF c # "" /\ c # "none" THEN Darker(c) ELSE c,
                           ![e].bigText = RegionName(i),
                           ![e].resultText = MetricText(p, iso)]
     /\ last' = [NoCall EXCEPT !.op = "mouseenter", !.el = e, !.feature = i,
                               !.fill = cur[e].fills[i]]
     /\ UNCHANGED <<maps, zoomStates, dom, fetches, fetchCount>>

\* variant: the metric text is left in place when the pointer leaves
mouseoutKeepingMetric(e, i) ==
  LET p == cur[e].props
  IN /\ Interactive(e)
     /\ cur' = [cur EXCEPT ![e].fills[i] = colorFn(p, Features[i]),
                           ![e].bigText = ""]
     /\ last' = [NoCall EXCEPT !.op = "mouseout", !.el = e, !.feature = i,
                               !.fill = cur[e].fills[i]]
     /\ UNCHANGED <<maps, zoomStates, dom, fetches, fetchCount>>

\* mouseout: style('fill', d => colorFn(d)) on the region, clear both texts
mouseout(e, i) ==
  LET p == cur[e].props
  IN /\ Interactive(e)
     /\ cur' = [cur EXCEPT ![e].fills[i] = colorFn(p, Features[i]),
                           ![e].bigText = "",
                           ![e].resultText = ""]
     /\ last' = [NoCall EXCEPT !.op = "mouseout", !.el = e, !.feature = i,
                               !.fill = cur[e].fills[i]]
     /\ UNCHANGED <<maps, zoomStates, dom, fetches, fetchCount>>

\* -------------------------------------------------------------------- zoom
\* the 'zoom' listener, for a gesture d3 reports as (scale, raw translate)
ZoomEvent(e, scale, raw) ==
  LET p == cur[e].props
      tx == ClampTranslate(raw[1], p.width, scale)
      ty == ClampTranslate(raw[2], p.height, scale)
      applied == [scale |-> scale, translate |-> <<tx, ty>>]
  IN /\ cur[e].rendered
     /\ dom[e].kind = "svg"
     /\ cur' = [cur EXCEPT ![e].gTransform = applied]
     /\ zoomStates' = [zoomStates EXCEPT ![chartKey(p)] = applied]
     /\ last' = [NoCall EXCEPT !.op = "zoom", !.el = e]
     /\ UNCHANGED <<maps, dom, fetches, fetchCount>>

\* ---------------------------------------------------------- specifications
\* the loader: every country code
LoadProps == {[BaseProps EXCEPT !.country = c] : c \in CountryCodes}

\* click and context menu: every selection and every wiring of the callbacks
FilterProps ==
  {[BaseProps EXCEPT !.selectedValues = sv, !.emitCrossFilters = em,
                        !.setDataMask = sdm, !.onContextMenu = ocm] :
     sv \in Selections, em \in BOOLEAN, sdm \in BOOLEAN, ocm \in BOOLEAN}

\* zoom: every size and chart identifier
ZoomProps ==
  {[BaseProps EXCEPT !.width = wh[1], !.height = wh[2], !.sliceId = id] :
     wh \in {<<4, 3>>, <<6, 5>>}, id \in SliceIds}

\* gestures that end below, inside and above the pan bounds
ZoomGestures ==
  {<<2, <<-MaxPan, -2>>>>, <<MaxScale, <<-2, MaxPan>>>>, <<MinScale, <<-2, -2>>>>}

\* the clamp: every size, every scale and raw translate, one chart identifier
ClampProps ==
  {[BaseProps EXCEPT !.width = w, !.height = h, !.sliceId = "1"] :
     w \in Widths, h \in Heights}

\* load failure: both callbacks wired, with and without a selection
FailureProps ==
  {[BaseProps EXCEPT !.selectedValues = sv, !.emitCrossFilters = TRUE,
                     !.setDataMask = TRUE, !.onContextMenu = TRUE] :
     sv \in {Undefined, Arr(<<"A">>)}}

\* hover: rows that colour no region, one region twice, or another region,
\* under the linear scale and under a categorical scheme
HoverData ==
  {<<>>,
   <<[country_id |-> "A", metric |-> 1], [country_id |-> "A", metric |-> 2]>>,
   <<[country_id |-> "B", metric |-> 2]>>}

HoverProps ==
  {[BaseProps EXCEPT !.data = d, !.colorScheme = cs,
                     !.emitCrossFilters = TRUE, !.setDataMask = TRUE] :
     d \in HoverData, cs \in {"", "scheme"}}

\* several chart instances of one size: with and without a chart identifier
InstanceProps == {[BaseProps EXCEPT !.sliceId = id] : id \in {"", "1"}}

InstanceGestures == {<<2, <<-MaxPan, -2>>>>, <<MinScale, <<-2, -2>>>>}

Next ==
  \/ \E e \in Elements, p \in LoadProps : Render(e, p)
  \/ \E i \in 1..Len(fetches) : FetchSuccess(i)
  \/ \E i \in 1..Len(fetches) : FetchFailure(i)

Spec == Init /\ [][Next]_vars

NextFilter ==
  \/ \E p \in FilterProps : Render(1, p)
  \/ \E i \in 1..Len(fetches) : FetchSuccess(i)
  \/ \E i \in 1..Len(fetches) : FetchFailure(i)
  \/ \E i \in FeatureIdx, shift \in BOOLEAN : handleClick(1, i, shift)
  \/ \E i \in FeatureIdx, pt \in Pointers : handleContextMenu(1, i, pt)

SpecFilter == Init /\ [][NextFilter]_vars

NextZoom ==
  \/ \E p \in ZoomProps : Render(1, p)
  \/ \E i \in 1..Len(fetches) : FetchSuccess(i)
  \/ \E i \in 1..Len(fetches) : FetchFailure(i)
  \/ \E z \in ZoomGestures : ZoomEvent(1, z[1], z[2])

SpecZoom == Init /\ [][NextZoom]_vars

NextClamp ==
  \/ \E p \in ClampProps : Render(1, p)
  \/ \E i \in 1..Len(fetches) : FetchSuccess(i)
  \/ \E i \in 1..Len(fetches) : FetchFailure(i)
  \/ \E scale \in Scales, raw \in RawCoords \X RawCoords : ZoomEvent(1, scale, raw)

SpecClamp == Init /\ [][NextClamp]_vars

NextFailure ==
  \/ \E p \in FailureProps : Render(1, p)
  \/ \E i \in 1..Len(fetches) : FetchSuccess(i)
  \/ \E i \in 1..Len(fetches) : FetchFailure(i)
  \/ \E i \in FeatureIdx, shift \in BOOLEAN : handleClick(1, i, shift)
  \/ \E i \in FeatureIdx, pt \in Pointers : handleContextMenu(1, i, pt)
  \/ \E z \in ZoomGestures : ZoomEvent(1, z[1], z[2])

SpecFailure == Init /\ [][NextFailure]_vars

NextHover ==
  \/ \E p \in HoverProps : Render(1, p)
  \/ \E i \in 1..Len(fetches) : FetchSuccess(i)
  \/ \E i \in 1..Len(fetches) : FetchFailure(i)
  \/ \E i \in FeatureIdx : mouseenter(1, i)
  \/ \E i \in FeatureIdx : mouseout(1, i)
  \/ \E i \in FeatureIdx : handleClick(1, i, FALSE)

SpecHover == Init /\ [][NextHover]_vars

NextInstances ==
  \/ \E e \in Elements, p \in InstanceProps : Render(e, p)
  \/ \E i \in 1..Len(fetches) : FetchSuccess(i)
  \/ \E i \in 1..Len(fetches) : FetchFailure(i)
  \/ \E e \in Elements, z \in InstanceGestures : ZoomEvent(e, z[1], z[2])

SpecInstances == Init /\ [][NextInstances]_vars

\* ================================================================== claims
Range(s) == {s[i] : i \in 1..Len(s)}

\* a selection value as a set: null, undefined and [] are the empty selection
AsSet(v) == IF v.tag = "array" THEN Range(v.items) ELSE {}

\* the last operation was a click that reached setDataMask
ClickEmitted == last.op = "click" /\ last.setDataMaskCalls = 1

LastProps == cur[last.el].props
LastISO == Features[last.feature]

\* the selection the claims expect a click on r to emit
ExpectedSelection(S, r, shift) ==
  IF shift THEN (IF r \in S THEN S \ {r} ELSE S \cup {r})
  ELSE IF S = {r} THEN {} ELSE {r}

\* C1: a click on a coded region with cross-filtering enabled and a callback
\* supplied emits {} for a plain click on the sole selection, {r} for any
\* other plain click, and S with r's membership flipped for a shift-click.
C1_ClickToggle ==
  (/\ last.op = "click"
   /\ LastProps.emitCrossFilters /\ LastProps.setDataMask
   /\ LastISO # NoISO)
  => /\ last.setDataMaskCalls = 1
     /\ AsSet(last.mask.filterState.selectedValues)
          = ExpectedSelection(AsSet(LastProps.selectedValues), LastISO, last.shift)

\* a shift-click on one of two selected regions: the other one is kept
C1_Witness ==
  /\ ClickEmitted /\ last.shift
  /\ Cardinality(AsSet(LastProps.selectedValues)) = 2
  /\ LastISO \in AsSet(LastProps.selectedValues)
  /\ Cardinality(AsSet(last.mask.filterState.selectedValues)) = 1

\* C2 (as stated): a country code is never fetched more than once, whatever
\* the interleaving of render calls and fetch completions.
C2_OneFetchPerCountry == \A c \in CountryCodes : fetchCount[c] <= 1

\* C2 (amended): a render call issues a fetch exactly when the cache has no
\* entry for its country at that moment; once an entry exists no step issues
\* another fetch for that country.
C2_FetchOnlyOnMiss ==
  [][/\ \A c \in CountryCodes : maps[c] # 0 => fetchCount'[c] = fetchCount[c]
     /\ last'.op = "render" =>
          /\ last'.fetched <=> maps[last'.country] = 0
          /\ last'.fetched <=> fetchCount'[last'.country] = fetchCount[last'.country] + 1
          /\ \A c \in CountryCodes \ {last'.country} : fetchCount'[c] = fetchCount[c]
     /\ last'.op # "render" => fetchCount' = fetchCount]_vars

\* a second load of a country, served from the cache after its only fetch
C2_Witness ==
  /\ last.op = "render" /\ last.fromCache
  /\ fetchCount[last.country] = 1
  /\ cur[last.el].drawn

\* C3 (as stated): the crossFilter.dataMask handed to onContextMenu is the
\* data mask a plain click on the same region with the same selection passes
\* to setDataMask, and the context menu does not call setDataMask.
C3_ContextMenuEqualsClick ==
  (last.op = "contextmenu" /\ last.ctxCalls = 1)
  => /\ last.ctxArgs[3].crossFilter.dataMask
          = ClickDataMask(NewSelection(LastProps.selectedValues, LastISO, FALSE))
     /\ last.setDataMaskCalls = 0

\* the chart key of the claims: the slice identifier, else country-width-height
KeyOf(p) ==
  IF p.sliceId # "" THEN p.sliceId
  ELSE p.country \o "-" \o ToString(p.width) \o "-" \o ToString(p.height)

\* min(0, dimension - dimension*scale)
LowerPanBound(dimension, scale) ==
  IF dimension - dimension * scale < 0 THEN dimension - dimension * scale ELSE 0

WithinPanBounds(t, width, height) ==
  /\ LowerPanBound(width, t.scale) <= t.translate[1] /\ t.translate[1] <= 0
  /\ LowerPanBound(height, t.scale) <= t.translate[2] /\ t.translate[2] <= 0

\* C4: after a zoom event the translate applied to the content group, which
\* is also the one stored in zoomStates, lies between
\* min(0, dimension - dimension*scale) and 0 on each axis.
C4_ZoomClamp ==
  last.op = "zoom"
  => LET c == cur[last.el]
     IN /\ c.gTransform.scale \in MinScale..MaxScale
        /\ WithinPanBounds(c.gTransform, c.props.width, c.props.height)
        /\ zoomStates[KeyOf(c.props)] = c.gTransform

\* a gesture panned past the left edge and left inside the vertical range
C4_Witness ==
  /\ last.op = "zoom"
  /\ cur[last.el].gTransform.scale = 2
  /\ cur[last.el].gTransform.translate[1]
       = cur[last.el].props.width - 2 * cur[last.el].props.width
  /\ cur[last.el].gTransform.translate[2] = -2

\* C5: a zoom event stores the transform it applied under its chart key and
\* touches no other entry, no other step changes the store, and a render
\* call whose chart key has an entry applies exactly that entry to the
\* content group and to the zoom behaviour.
C5_ZoomPersistence ==
  [][/\ last'.op = "zoom" =>
          /\ zoomStates'[KeyOf(cur'[last'.el].props)] = cur'[last'.el].gTransform
          /\ \A k \in ChartKeys \ {KeyOf(cur'[last'.el].props)} :
               zoomStates'[k] = zoomStates[k]
     /\ last'.op # "zoom" => zoomStates' = zoomStates
     /\ last'.op = "render" =>
          LET k == KeyOf(cur'[last'.el].props)
          IN zoomStates[k] # NoZoom =>
               /\ cur'[last'.el].gTransform = zoomStates[k]
               /\ cur'[last'.el].zoomCall = zoomStates[k]]_vars

\* a redraw that restored a panned, zoomed-in transform left by a gesture
C5_Witness ==
  /\ last.op = "render"
  /\ cur[last.el].gTransform = zoomStates[KeyOf(cur[last.el].props)]
  /\ cur[last.el].gTransform.scale = 2
  /\ cur[last.el].gTransform.translate[2] = -2

\* C6: every drawn region has fill-opacity 1 iff the render's selection is
\* empty or contains the region's code, else 0.3; after a draw and after a
\* handled click alike.
C6_HighlightOpacity ==
  \A e \in Elements :
    cur[e].drawn =>
      \A i \in FeatureIdx :
        LET S == AsSet(cur[e].props.selectedValues)
        IN /\ cur[e].regions[i].fillOpacity \in {FullOpacity, DimOpacity}
           /\ cur[e].regions[i].fillOpacity = FullOpacity
                <=> (S = {} \/ Features[i] \in S)

\* after a handled click, one region full and another dimmed
C6_Witness ==
  /\ ClickEmitted
  /\ cur[last.el].regions[1].fillOpacity = FullOpacity
  /\ cur[last.el].regions[2].fillOpacity = DimOpacity

\* the error panel for a country name
ErrorPanel(name) ==
  "<div class=\"alert alert-danger\">Could not load map data for " \o name \o "</div>"

\* C7: a failed fetch replaces the container content by the error panel,
\* which names the country by its display name when countryOptions has one
\* for the code, and by the raw code otherwise.
C7_LoadFailurePanel ==
  last.op = "fetchFailure"
  => /\ dom[last.el].kind = "error"
     /\ \A i \in 1..Len(countryOptions) :
          countryOptions[i][1] = last.country
            => dom[last.el].html = ErrorPanel(countryOptions[i][2])
     /\ (\A i \in 1..Len(countryOptions) : countryOptions[i][1] # last.country)
          => dom[last.el].html = ErrorPanel(last.country)

\* a failed load of a country that has a display name
C7_Witness ==
  /\ last.op = "fetchFailure"
  /\ last.country = "uk"
  /\ dom[last.el].html = ErrorPanel("UK")

\* C8: the argument of setDataMask has no filter clause and null value and
\* selectedValues when the new selection is empty; otherwise it has exactly
\* one clause {col: entity, op: 'IN', val: N} and value = selectedValues = N.
\* No clause with an empty val is emitted.
C8_ClickPayloadShape ==
  ClickEmitted =>
    LET m == last.mask
        N == ExpectedSelection(AsSet(LastProps.selectedValues), LastISO, last.shift)
    IN /\ N = {} =>
            /\ m.extraFormData.filters = <<>>
            /\ m.filterState.value = Null
            /\ m.filterState.selectedValues = Null
       /\ N # {} =>
            /\ Len(m.extraFormData.filters) = 1
            /\ m.extraFormData.filters[1].col = Entity
            /\ m.extraFormData.filters[1].op = "IN"
            /\ Range(m.extraFormData.filters[1].val) = N
            /\ m.filterState.value = Arr(m.extraFormData.filters[1].val)
            /\ m.filterState.selectedValues = Arr(m.extraFormData.filters[1].val)
       /\ \A i \in 1..Len(m.extraFormData.filters) :
            m.extraFormData.filters[i].val # <<>>

\* a click that cleared the selection: no clause, null state
C8_Witness ==
  /\ ClickEmitted
  /\ last.mask.extraFormData.filters = <<>>
  /\ last.mask.filterState.value = Null
  /\ AsSet(LastProps.selectedValues) # {}

\* C9: a click is a no-op when emitCrossFilters is false or setDataMask is
\* not a function: no callback, no highlight pass, no change of the cache,
\* the zoom store, the chart or the container. With both and a coded region
\* setDataMask is called exactly once.
C9_ClickGating ==
  [][last'.op = "click" =>
       LET p == cur[last'.el].props
       IN /\ (~p.emitCrossFilters \/ ~p.setDataMask) =>
               /\ last'.setDataMaskCalls = 0
               /\ last'.highlights = 0
               /\ last'.ctxCalls = 0
               /\ UNCHANGED <<maps, zoomStates, cur, dom, fetches, fetchCount>>
          /\ (p.emitCrossFilters /\ p.setDataMask /\ Features[last'.feature] # NoISO) =>
               last'.setDataMaskCalls = 1]_vars

\* a click on a coded region with cross-filtering off and a callback supplied
C9_Witness ==
  /\ last.op = "click"
  /\ LastISO # NoISO
  /\ ~LastProps.emitCrossFilters /\ LastProps.setDataMask
  /\ last.setDataMaskCalls = 0

\* the entries the context menu carries for a region code
DrillEntriesFor(args, iso) ==
  /\ args.drillToDetail =
       <<[col |-> Entity, op |-> "==", val |-> iso, formattedVal |-> iso]>>
  /\ args.drillBy = [filters |-> <<[col |-> Entity, op |-> "==", val |-> iso]>>,
                     groupbyFieldName |-> "entity"]
  /\ args.crossFilter.dataMask.filterState.value \in {Null, Arr(<<iso>>)}

\* C10 (as stated): without a callback a right-click on a region does nothing;
\* with a callback every right-click on a region suppresses the native menu
\* and invokes the callback exactly once with the pointer position and the
\* entries for the region's ISO code.
C10_ContextMenuAlwaysInvoked ==
  last.op = "contextmenu" =>
    /\ ~LastProps.onContextMenu => (~last.prevented /\ last.ctxCalls = 0)
    /\ LastProps.onContextMenu =>
         /\ last.prevented
         /\ last.ctxCalls = 1
         /\ last.ctxArgs[1] = last.pointer[1]
         /\ last.ctxArgs[2] = last.pointer[2]
         /\ DrillEntriesFor(last.ctxArgs[3], LastISO)

\* C10 (amended): as above, but the callback is invoked exactly once only
\* when the region has an ISO code; on a region without one the native menu
\* is still suppressed and the callback is not invoked.
C10_ContextMenuGating ==
  last.op = "contextmenu" =>
    /\ last.setDataMaskCalls = 0
    /\ ~LastProps.onContextMenu => (~last.prevented /\ last.ctxCalls = 0)
    /\ LastProps.onContextMenu =>
         /\ last.prevented
         /\ LastISO = NoISO => last.ctxCalls = 0
         /\ LastISO # NoISO =>
              /\ last.ctxCalls = 1
              /\ last.ctxArgs[1] = last.pointer[1]
              /\ last.ctxArgs[2] = last.pointer[2]
              /\ DrillEntriesFor(last.ctxArgs[3], LastISO)

\* a right-click, callback supplied, on the region that has no ISO code
C10_Witness ==
  /\ last.op = "contextmenu"
  /\ LastProps.onContextMenu
  /\ LastISO = NoISO
  /\ last.prevented
  /\ last.ctxCalls = 0

\* C11: the filter state the host passed in is never modified: outside a
\* render call, which installs the host's new props, every element's
\* selectedValues stays what the host passed, whatever clicks, context menus
\* and highlight passes happen; the new selection only travels in callbacks.
C11_FilterStateReadOnly ==
  [][last'.op # "render" =>
       \A e \in Elements : cur'[e].props.selectedValues = cur[e].props.selectedValues]_vars

\* a shift-click emitted a selection that differs from the host's list
C11_Witness ==
  /\ ClickEmitted /\ last.shift
  /\ LastProps.selectedValues.tag = "array"
  /\ AsSet(last.mask.filterState.selectedValues) # AsSet(LastProps.selectedValues)
  /\ Len(LastProps.selectedValues.items) = 2

\* the highlight styles the claims expect for selection S and region code r
StylesFor(S, r) ==
  [fillOpacity |-> IF S = {} \/ r \in S THEN FullOpacity ELSE DimOpacity,
   stroke |-> IF r \in S THEN "#222" ELSE "null",
   strokeWidth |-> IF r \in S THEN "1.5px" ELSE "0.5px"]

HighlightOf(region) ==
  [fillOpacity |-> region.fillOpacity, stroke |-> region.stroke,
   strokeWidth |-> region.strokeWidth]

\* C17: the highlight pass that follows an emitting click leaves every
\* region's fill-opacity and stroke as they were, namely those of the
\* render's input selection S and not of the emitted selection; highlighting
\* changes only when the host renders again (or the render's draw happens).
C17_HighlightKeepsRenderSelection ==
  [][/\ (last'.op = "click" /\ last'.setDataMaskCalls = 1) =>
          \A i \in FeatureIdx :
            /\ HighlightOf(cur'[last'.el].regions[i]) = HighlightOf(cur[last'.el].regions[i])
            /\ HighlightOf(cur'[last'.el].regions[i])
                 = StylesFor(AsSet(cur[last'.el].props.selectedValues), Features[i])
     /\ last'.op \notin {"render", "fetchSuccess"} =>
          \A e \in Elements :
            /\ cur'[e].drawn = cur[e].drawn
            /\ cur[e].drawn =>
                 \A i \in FeatureIdx :
                   HighlightOf(cur'[e].regions[i]) = HighlightOf(cur[e].regions[i])]_vars

\* a plain click on B while only A is selected: B is emitted, A stays the
\* highlighted region
C17_Witness ==
  /\ ClickEmitted /\ ~last.shift
  /\ AsSet(LastProps.selectedValues) = {"A"}
  /\ AsSet(last.mask.filterState.selectedValues) = {"B"}
  /\ cur[last.el].regions[1].stroke = "#222"
  /\ cur[last.el].regions[2].fillOpacity = DimOpacity

\* C12 (as stated): once a country has an entry in the cache, that entry is
\* never removed or replaced, and every later render call for the country
\* draws from the cache without a fetch.
C12_EntryNeverReplaced ==
  [][/\ \A c \in CountryCodes : maps[c] # 0 => maps'[c] = maps[c]
     /\ (last'.op = "render" /\ maps[last'.country] # 0) =>
          (last'.fromCache /\ ~last'.fetched)]_vars

\* C12 (amended): once a country has an entry, the country always has one
\* and every later render call for it draws from the cache without a fetch;
\* the entry is rewritten only by the success callback of another fetch for
\* the same country.
C12_EntryNeverRemoved ==
  [][/\ \A c \in CountryCodes :
          maps[c] # 0 =>
            /\ maps'[c] # 0
            /\ maps'[c] # maps[c] => (last'.op = "fetchSuccess" /\ last'.country = c)
     /\ (last'.op = "render" /\ maps[last'.country] # 0) =>
          /\ last'.fromCache /\ ~last'.fetched
          /\ cur'[last'.el].drawn
          /\ fetchCount' = fetchCount
          /\ Len(fetches') = Len(fetches)]_vars

\* a render served from the cache after both fetches of the country are over
C12_Witness ==
  /\ last.op = "render" /\ last.fromCache
  /\ fetchCount[last.country] = 2
  /\ maps[last.country] = 2
  /\ \A i \in 1..Len(fetches) : fetches[i].country # last.country

\* C13: the callback of a superseded render call still runs: a stale failure
\* puts its error panel on the element, a stale success still writes the
\* cache; so the stale failure can replace the map a newer render call drew.
C13_StaleCallbackRuns ==
  /\ (last.op = "fetchFailure" /\ last.stale) =>
       /\ dom[last.el].kind = "error"
       /\ \/ \E i \in 1..Len(countryOptions) :
               /\ countryOptions[i][1] = last.country
               /\ dom[last.el].html = ErrorPanel(countryOptions[i][2])
          \/ dom[last.el].html = ErrorPanel(last.country)
  /\ (last.op = "fetchSuccess" /\ last.stale) => maps[last.country] # 0

\* the newer render call drew another country's map and the stale failure
\* replaced it by the error panel of the superseded country
C13_Witness ==
  /\ last.op = "fetchFailure" /\ last.stale
  /\ cur[last.el].drawn
  /\ cur[last.el].props.country # last.country
  /\ dom[last.el].kind = "error"

\* C14: a failed fetch leaves the cache and the zoom store as they were,
\* issues no new fetch and calls neither setDataMask nor onContextMenu; and
\* no click, context-menu or zoom event happens on an element that shows an
\* error panel, until the host renders it again.
C14_FailureIsTerminal ==
  [][/\ last'.op = "fetchFailure" =>
          /\ maps' = maps /\ zoomStates' = zoomStates /\ cur' = cur
          /\ fetchCount' = fetchCount
          /\ Len(fetches') = Len(fetches) - 1
          /\ last'.setDataMaskCalls = 0 /\ last'.ctxCalls = 0
          /\ dom'[last'.el].kind = "error"
     /\ last'.op \in {"click", "contextmenu", "zoom"} =>
          /\ dom[last'.el].kind = "svg"
          /\ dom[last'.el].html = ""]_vars

\* the fetch of a chart that had already been zoomed failed
C14_Witness ==
  /\ last.op = "fetchFailure" /\ ~last.stale
  /\ dom[last.el].kind = "error"
  /\ cur[last.el].gTransform.scale = 2
  /\ zoomStates[KeyOf(cur[last.el].props)] = cur[last.el].gTransform

\* C15 (as stated): in every rendered state the transform on the content
\* group, whether a gesture set it or the render call restored it from the
\* store, respects the pan bounds of the current render's width and height.
C15_PanBoundsAlways ==
  \A e \in Elements :
    (cur[e].rendered /\ cur[e].gTransform # NoZoom) =>
      WithinPanBounds(cur[e].gTransform, cur[e].props.width, cur[e].props.height)

\* the colour the claim names the base fill of a region: the colour of the
\* last data row for its ISO code, or the fallback when no row names the code
BaseFill(p, iso) ==
  LET rows == {j \in 1..Len(p.data) : p.data[j].country_id = iso}
  IN IF rows = {} THEN "#FFFEFE"
     ELSE LET j == CHOOSE k \in rows : \A m \in rows : m <= k
          IN IF p.colorScheme # "" THEN "cat(" \o iso \o ")"
             ELSE "lin(" \o ToString(p.data[j].metric) \o ")"

\* C16: whatever pointer-enter and pointer-leave events came before, when the
\* last event is a pointer-leave on a region, that region's fill is its base
\* fill (the colour-map entry for its ISO code, or '#FFFEFE' when there is
\* none) and both overlay texts are empty.
C16_HoverRoundTrip ==
  \A e \in Elements :
    (last.op = "mouseout" /\ last.el = e) =>
      /\ cur[e].fills[last.feature] = BaseFill(cur[e].props, Features[last.feature])
      /\ cur[e].bigText = ""
      /\ cur[e].resultText = ""

\* a pointer-leave found the region darkened by an earlier pointer-enter, on a
\* region that has a colour-map entry written twice, while another region is
\* still darkened
C16_Witness ==
  /\ last.op = "mouseout"
  /\ Features[last.feature] = "A"
  /\ Len(cur[last.el].props.data) = 2
  /\ last.fill = "darker(lin(2))"
  /\ cur[last.el].fills[last.feature] = "lin(2)"
  /\ \E j \in FeatureIdx : cur[last.el].fills[j] = "darker(#FFFEFE)"

\* two elements show different chart instances unless they carry the same
\* slice identifier
DistinctInstances(e, other) ==
  /\ e # other
  /\ ~(cur[e].props.sliceId # "" /\ cur[e].props.sliceId = cur[other].props.sliceId)

\* C18: a zoom event on one chart instance leaves the stored zoom of every
\* other chart instance as it was, so the transform a later render of another
\* instance restores is not changed by it; this includes instances without a
\* slice identifier.
C18_ZoomIsolatedPerInstance ==
  [][\A e \in Elements :
       (last'.op = "zoom" /\ last'.el = e) =>
         \A other \in Elements \ {e} :
           (cur[other].rendered /\ DistinctInstances(e, other)) =>
             zoomStates'[KeyOf(cur[other].props)] = zoomStates[KeyOf(cur[other].props)]]_vars
====
